---- MODULE Spec2Model ----
(***************************************************************************)
(* Model of cli-aio's merge-conflict probe (internal/pkg/git/git.go,       *)
(* CheckMergeConflicts) and of the "git rmerge" workflow that uses it      *)
(* (cmd/git/command.go, reversedMergeBranch).                              *)
(*                                                                         *)
(* The program drives git through exec.Command.  The repository is the     *)
(* state the commands act on; every command the code runs is one step of   *)
(* the model and is appended to the log cmds.  git is modelled by what the *)
(* commands are documented to do: "merge --abort" succeeds exactly when a  *)
(* merge is in progress (MERGE_HEAD exists) and then ends that merge,      *)
(* whoever started it.                                                     *)
(*                                                                         *)
(* SpecProbe: callers of the exported CheckMergeConflicts, on any          *)
(*            repository state.                                            *)
(* Spec:      one run of "aio git rmerge [target]", to the process's exit. *)
(* SpecTag:   one call of GenerateNextTag (cmd/ztag/tag.go) on a tag, a    *)
(*            level and an environment; Go's int is IntBits wide.          *)
(* SpecZtag:  one run of a ztag subcommand (cmd/ztag/command.go) from the   *)
(*            latest remote tag to the release, or one call of             *)
(*            GetLatestTags with a limit.                                  *)
(***************************************************************************)
EXTENDS Integers, Sequences, FiniteSets, TLC

\* ------------------------------------------------------------------ bounds
\* How many calls of CheckMergeConflicts one behaviour of SpecProbe makes.
MaxCalls == 2

\* --------------------------------------------------------------- universe
\* Branch names of the repository, and one name that is no branch at all.
Branches == {"main", "dev", "feat"}
Ghost == "ghost"
BranchNames == Branches \cup {Ghost}

\* How a branch relates to the commit HEAD points at.
Relations == {"ancestor", "mergeable", "conflicting", "blocked"}

\* Whether a merge is in progress (MERGE_HEAD) and whether it has conflicts.
MergeStates == {"none", "clean", "conflicted"}

\* ---------------------------------------------------------------- strings
\* Go strings are byte sequences; they are modelled as sequences of
\* one-character strings so that strings.Contains is a real substring search.
RECURSIVE ContainsAt(_, _, _)
ContainsAt(s, sub, i) ==
    IF i + Len(sub) - 1 > Len(s) THEN FALSE
    ELSE IF SubSeq(s, i, i + Len(sub) - 1) = sub THEN TRUE
    ELSE ContainsAt(s, sub, i + 1)

Contains(s, sub) == ContainsAt(s, sub, 1)

UpperCase ==
    <<"A", "B", "C", "D", "E", "F", "G", "H", "I", "J", "K", "L", "M">>
        \o <<"N", "O", "P", "Q", "R", "S", "T", "U", "V", "W", "X", "Y", "Z">>

LowerCase ==
    <<"a", "b", "c", "d", "e", "f", "g", "h", "i", "j", "k", "l", "m">>
        \o <<"n", "o", "p", "q", "r", "s", "t", "u", "v", "w", "x", "y", "z">>

\* strings.ToLower, and a substring search that ignores letter case.
ToLowerChar(ch) ==
    IF \E i \in 1..26 : UpperCase[i] = ch
    THEN LowerCase[CHOOSE i \in 1..26 : UpperCase[i] = ch]
    ELSE ch

ToLower(s) == [i \in 1..Len(s) |-> ToLowerChar(s[i])]

ContainsFold(s, sub) == Contains(ToLower(s), ToLower(sub))

MarkerUpper == <<"C","O","N","F","L","I","C","T">>
MarkerLower == <<"c","o","n","f","l","i","c","t">>
MarkerAuto == <<"A","u","t","o","m","a","t","i","c"," ","m","e","r","g","e"," ","f","a","i","l","e","d">>

\* What a failed "git merge" can print (shortened git messages).
OutContent == MarkerUpper \o <<" ","i","n"," ","f">>
OutAutoFailed == MarkerAuto \o <<";">>
OutMergeConflict == <<"M","e","r","g","e"," ">> \o MarkerLower
OutCapitalised == <<"C","o","n","f","l","i","c","t">>
OutDirty == <<"l","o","c","a","l"," ","c","h","a","n","g","e","s">>
OutNotConcluded == <<"M","E","R","G","E","_","H","E","A","D"," ","e","x","i","s","t","s">>
OutUnmerged == <<"u","n","r","e","s","o","l","v","e","d"," ">> \o MarkerLower
OutUpToDate == <<"A","l","r","e","a","d","y"," ","u","p"," ","t","o"," ","d","a","t","e">>
OutMergeOk == <<"m","e","r","g","e"," ","w","e","n","t"," ","w","e","l","l">>

FailOutputs == {OutContent, OutAutoFailed, OutMergeConflict, OutCapitalised, OutDirty}

\* ------------------------------------------------------------ git commands
CmdIsAncestor(b) == <<"merge-base", "--is-ancestor", b, "HEAD">>
CmdMergeNoCommit(b) == <<"merge", "--no-commit", "--no-ff", b>>
CmdAbort == <<"merge", "--abort">>

\* ------------------------------------------------------------------ state
VARIABLES
    head,          \* the branch HEAD is on
    localBr,       \* refs/heads/*
    remoteBr,      \* refs/remotes/origin/*
    rel,           \* rel[b]: how branch b relates to HEAD's commit
    mergeState,    \* the merge in progress, if any
    probeMerge,    \* the merge in progress was started by the running probe
    failOutput,    \* what a failing "git merge" prints in this repository
    pc,            \* position of the running operation
    caller,        \* who called CheckMergeConflicts: "direct" or "rmerge"
    sourceBranch,  \* CheckMergeConflicts' parameter
    mergeOk,       \* err == nil of the speculative merge
    output,        \* its CombinedOutput
    ret,           \* CheckMergeConflicts' (bool, error)
    cmds,          \* git commands the running probe has issued, in order
    abortOks,      \* outcome of each "merge --abort" of the running probe
    preMerge,      \* mergeState when the probe was called
    hist,          \* the finished direct calls, in order
    calls,         \* operations started so far
    args,          \* rmerge: c.Args()
    currentBranch, \* rmerge: branch A
    targetBranch,  \* rmerge: branch B
    ops,           \* rmerge: the git package functions called, in order
    wfErr,         \* rmerge: the error the Action returned
    exitCode,      \* the process's exit status, NoExit while it runs
    oldTag,        \* GenerateNextTag's parameter oldTag
    level,         \* GenerateNextTag's parameter level
    env,           \* GenerateNextTag's parameter env
    template,      \* the supported template that matched, 0 for none
    comps,         \* GenerateNextTag's local c, the TagComponents
    tagRes,        \* what GenerateNextTag returned, or that it panicked
    remoteTags,    \* refs/tags/* on origin, the most recently created first
    localTags,     \* refs/tags/* of the local repository
    latestTags,    \* ztag: what GetLatestTags returned
    nextTag,       \* ztag: the tag to release
    jiraTicket,    \* ztag: the answer to the ticket prompt
    tagCmds        \* the git commands CreateAndPushTag has run, with their outcome

repoVars == <<head, localBr, remoteBr, rel, mergeState, probeMerge, failOutput>>
wfVars == <<args, currentBranch, targetBranch, ops, wfErr>>
probeVars == <<caller, sourceBranch, mergeOk, output, ret, cmds, abortOks,
               preMerge, hist, calls>>
tagVars == <<oldTag, level, env, template, comps, tagRes>>
ztVars == <<remoteTags, localTags, latestTags, nextTag, jiraTicket, tagCmds>>
probeLocals == <<sourceBranch, mergeOk, output, ret, cmds, abortOks, preMerge, hist>>
branchVars == <<head, localBr, remoteBr, rel, mergeState, probeMerge, failOutput,
                args, targetBranch, exitCode>>
vars == <<head, localBr, remoteBr, rel, mergeState, probeMerge, failOutput,
          pc, caller, sourceBranch, mergeOk, output, ret, cmds, abortOks,
          preMerge, hist, calls, args, currentBranch, targetBranch, ops, wfErr,
          exitCode, oldTag, level, env, template, comps, tagRes,
          remoteTags, localTags, latestTags, nextTag, jiraTicket, tagCmds>>

\* ----------------------------------------------------------------- errors
NoErr == [kind |-> "nil", out |-> <<>>]
ProbeExecutionError(out) == [kind |-> "error checking merge conflicts", out |-> out]
AbortError == [kind |-> "merge --abort failed", out |-> <<>>]
NoRet == [val |-> FALSE, err |-> [kind |-> "unset", out |-> <<>>]]

\* -------------------------------------------------------------------- git
\* rel maps with the branch HEAD is on as its own ancestor.
RelMaps(h) == {r \in [Branches -> Relations] : r[h] = "ancestor"}

RelOf(b) == IF b \in Branches THEN rel[b] ELSE "blocked"

\* git merge-base --is-ancestor b HEAD: exit 0 iff b is an ancestor of HEAD.
GitIsAncestor(b) == RelOf(b) = "ancestor"

\* git merge --no-commit --no-ff b: exit status, output and the merge state
\* it leaves.  With a merge already in progress git refuses and changes
\* nothing.
GitMergeNoCommit(b) ==
    IF mergeState # "none"
    THEN [ok |-> FALSE,
          out |-> IF mergeState = "conflicted" THEN OutUnmerged ELSE OutNotConcluded,
          ms |-> mergeState, started |-> FALSE]
    ELSE CASE RelOf(b) = "ancestor" ->
                [ok |-> TRUE, out |-> OutUpToDate, ms |-> "none", started |-> FALSE]
           [] RelOf(b) = "mergeable" ->
                [ok |-> TRUE, out |-> OutMergeOk, ms |-> "clean", started |-> TRUE]
           [] RelOf(b) = "conflicting" ->
                [ok |-> FALSE, out |-> failOutput, ms |-> "conflicted", started |-> TRUE]
           [] OTHER ->
                [ok |-> FALSE, out |-> failOutput, ms |-> "none", started |-> FALSE]

\* git merge --abort on merge state ms: fails when there is no merge to
\* abort, else ends the merge.
GitMergeAbort(ms) == [ok |-> ms # "none", ms |-> "none"]

\* ---------------------------------------------------- CheckMergeConflicts
\* strings.Contains over the three literals of the code.
HasConflictsAnyCase(out) ==
    \/ ContainsFold(out, MarkerUpper)
    \/ ContainsFold(out, MarkerAuto)

HasConflicts(out) ==
    \/ Contains(out, MarkerUpper)
    \/ Contains(out, MarkerLower)
    \/ Contains(out, MarkerAuto)

\* `_ = abortCmd.Run()`: the abort's error is dropped, the result stands.
AbortErrorShadows(result, abortOk) ==
    IF abortOk THEN result ELSE [val |-> FALSE, err |-> AbortError]

IgnoreAbortError(result, abortOk) == result

\* The branch taken after the ancestry check.
AfterAncestorIgnored(isAnc) == "merge"

AfterAncestor(isAnc) == IF isAnc THEN "defer" ELSE "merge"

\* The branch taken after the speculative merge.
AfterMergeAnyFailureIsConflict(ok, out) ==
    IF ok THEN "abortOk" ELSE "abortConflict"

AfterMergeNoConflictCheck(ok, out) ==
    IF ok THEN "abortOk" ELSE "abortOther"

AfterMerge(ok, out) ==
    IF ok THEN "abortOk" ELSE IF HasConflicts(out) THEN "abortConflict" ELSE "abortOther"

\* The primary result of each branch.
ResultOfMergedAsConflict(branch, out) ==
    CASE branch = "ancestor" -> [val |-> FALSE, err |-> NoErr]
      [] branch = "abortOk" -> [val |-> TRUE, err |-> NoErr]
      [] branch = "abortConflict" -> [val |-> TRUE, err |-> NoErr]
      [] OTHER -> [val |-> FALSE, err |-> ProbeExecutionError(out)]

ResultOf(branch, out) ==
    CASE branch = "ancestor" -> [val |-> FALSE, err |-> NoErr]
      [] branch = "abortOk" -> [val |-> FALSE, err |-> NoErr]
      [] branch = "abortConflict" -> [val |-> TRUE, err |-> NoErr]
      [] OTHER -> [val |-> FALSE, err |-> ProbeExecutionError(out)]

\* Entry of CheckMergeConflicts(src), called by who.
EnterProbe(src, who) ==
    /\ caller' = who
    /\ sourceBranch' = src
    /\ pc' = "isAncestor"
    /\ cmds' = <<>>
    /\ abortOks' = <<>>
    /\ preMerge' = mergeState
    /\ ret' = NoRet
    /\ mergeOk' = FALSE
    /\ output' = <<>>
    /\ probeMerge' = FALSE

\* A direct call of the exported function.
CallProbe(src) ==
    /\ pc = "idle"
    /\ calls < MaxCalls
    /\ calls' = calls + 1
    /\ EnterProbe(src, "direct")
    /\ UNCHANGED <<head, localBr, remoteBr, rel, mergeState, failOutput, hist, wfVars>>
    /\ UNCHANGED <<exitCode, tagVars, ztVars>>

\* git.go:167-173
ProbeIsAncestor ==
    /\ pc = "isAncestor"
    /\ cmds' = Append(cmds, CmdIsAncestor(sourceBranch))
    /\ LET isAnc == GitIsAncestor(sourceBranch)
           next == AfterAncestor(isAnc) IN
        /\ pc' = next
        /\ ret' = IF next = "defer" THEN ResultOf("ancestor", <<>>) ELSE ret
    /\ UNCHANGED <<repoVars, caller, sourceBranch, mergeOk, output, abortOks,
                   preMerge, hist, calls, wfVars>>
    /\ UNCHANGED <<exitCode, tagVars, ztVars>>

\* git.go:175-178
ProbeMerge ==
    /\ pc = "merge"
    /\ cmds' = Append(cmds, CmdMergeNoCommit(sourceBranch))
    /\ LET r == GitMergeNoCommit(sourceBranch) IN
        /\ mergeOk' = r.ok
        /\ output' = r.out
        /\ mergeState' = r.ms
        /\ probeMerge' = r.started
        /\ pc' = AfterMerge(r.ok, r.out)
    /\ UNCHANGED <<head, localBr, remoteBr, rel, failOutput, caller, sourceBranch,
                   ret, abortOks, preMerge, hist, calls, wfVars>>
    /\ UNCHANGED <<exitCode, tagVars, ztVars>>

\* One `abortCmd.Run()`.
RunAbortSkipped ==
    /\ UNCHANGED <<cmds, mergeState, probeMerge>>
    /\ abortOks' = Append(abortOks, TRUE)

RunAbort ==
    /\ cmds' = Append(cmds, CmdAbort)
    /\ abortOks' = Append(abortOks, GitMergeAbort(mergeState).ok)
    /\ mergeState' = GitMergeAbort(mergeState).ms
    /\ probeMerge' = FALSE

\* git.go:181-186, 194-199, 201-204: abort, then return the branch's result.
ProbeAbortAndReturn(branch) ==
    /\ pc = branch
    /\ RunAbort
    /\ ret' = IgnoreAbortError(ResultOf(branch, output), abortOks'[Len(abortOks')])
    /\ pc' = "defer"
    /\ UNCHANGED <<head, localBr, remoteBr, rel, failOutput, caller, sourceBranch,
                   mergeOk, output, preMerge, hist, calls, wfVars>>
    /\ UNCHANGED <<exitCode, tagVars, ztVars>>

ProbeAbortOk == ProbeAbortAndReturn("abortOk")

ProbeAbortConflict == ProbeAbortAndReturn("abortConflict")

ProbeAbortOther == ProbeAbortAndReturn("abortOther")

\* git.go:161-165: the deferred abort, run on every return.
ProbeDeferred ==
    /\ pc = "defer"
    /\ RunAbort
    /\ ret' = IgnoreAbortError(ret, abortOks'[Len(abortOks')])
    /\ pc' = "return"
    /\ UNCHANGED <<head, localBr, remoteBr, rel, failOutput, caller, sourceBranch,
                   mergeOk, output, preMerge, hist, calls, wfVars>>
    /\ UNCHANGED <<exitCode, tagVars, ztVars>>

\* Back in the caller of a direct call.
ProbeReturn ==
    /\ pc = "return"
    /\ caller = "direct"
    /\ pc' = "idle"
    /\ hist' = Append(hist, [src |-> sourceBranch, pre |-> preMerge,
                             post |-> mergeState, ret |-> ret])
    /\ UNCHANGED <<repoVars, caller, sourceBranch, mergeOk, output, ret, cmds,
                   abortOks, preMerge, calls, wfVars>>
    /\ UNCHANGED <<exitCode, tagVars, ztVars>>

\* ------------------------------------------------------------- git rmerge
\* rel maps that give every branch HEAD is not on the same relation.
UniformRel(h, r) == [x \in Branches |-> IF x = h THEN "ancestor" ELSE r]

UniformRelMaps(h) == {UniformRel(h, r) : r \in Relations}

\* git show-ref --verify refs/heads/b, then refs/remotes/origin/b.
BranchExistsUnverified(b) == TRUE

BranchExists(b) == b \in localBr \/ b \in remoteBr

\* The local branches other than the current one (command.go:76-82, 107-113).
AvailableBranches == {b \in localBr : b # currentBranch}

\* `if currentBranch == targetBranch` (command.go:130).
SameBranchNeverRefused(current, target) == FALSE

SameBranch(current, target) == current = target

\* What the workflow does with the probe's result (command.go:155-162).
AfterProbeMergesOnConflict(hasConflicts, err) ==
    IF err # NoErr THEN "failed to check merge conflicts" ELSE "rm_merge"

AfterProbe(hasConflicts, err) ==
    IF err # NoErr THEN "failed to check merge conflicts"
    ELSE IF hasConflicts THEN "merge conflicts detected"
    ELSE "rm_merge"

\* After FetchBranch (command.go:135-139): its error is printed as a warning
\* and the run goes on.
AfterFetchFatal(ok) == IF ok THEN "rm_checkout" ELSE "rm_done"

AfterFetch(ok) == "rm_checkout"

\* `return err`: the Action ends with this error.
RmFailRetries(e) ==
    /\ wfErr' = e
    /\ pc' = "rm_fetch"

RmFail(e) ==
    /\ wfErr' = e
    /\ pc' = "rm_done"

\* command.go:58-63: the run starts; GetCurrentBranch.
RmStart(argv, gitOk) ==
    /\ pc = "idle"
    /\ calls = 0
    /\ calls' = 1
    /\ args' = argv
    /\ ops' = <<<<"GetCurrentBranch">>>>
    /\ IF gitOk
       THEN /\ currentBranch' = head
            /\ pc' = "rm_resolve"
            /\ wfErr' = wfErr
       ELSE /\ currentBranch' = ""
            /\ RmFail("error running git command to get current branch")
    /\ UNCHANGED <<repoVars, caller, sourceBranch, mergeOk, output, ret, cmds,
                   abortOks, preMerge, hist, targetBranch>>
    /\ UNCHANGED <<exitCode, tagVars, ztVars>>

\* command.go:65-93: the target from the argument, or from a prompt over the
\* other local branches.  sel is the prompt's answer: a branch, or "" when
\* the prompt fails.
RmResolveTarget(gitOk, sel) ==
    /\ pc = "rm_resolve"
    /\ IF Len(args) > 0
       THEN /\ targetBranch' = args[1]
            /\ pc' = "rm_exists"
            /\ UNCHANGED <<ops, wfErr>>
       ELSE /\ ops' = Append(ops, <<"GetLocalBranches">>)
            /\ IF ~gitOk
               THEN /\ RmFail("error getting local branches")
                    /\ UNCHANGED targetBranch
               ELSE IF AvailableBranches = {}
               THEN /\ RmFail("no other local branches available to merge into")
                    /\ UNCHANGED targetBranch
               ELSE IF sel = ""
               THEN /\ RmFail("failed to select branch")
                    /\ UNCHANGED targetBranch
               ELSE /\ sel \in AvailableBranches
                    /\ targetBranch' = sel
                    /\ pc' = "rm_exists"
                    /\ UNCHANGED wfErr
    /\ UNCHANGED <<repoVars, caller, sourceBranch, mergeOk, output, ret, cmds,
                   abortOks, preMerge, hist, calls, args, currentBranch>>
    /\ UNCHANGED <<exitCode, tagVars, ztVars>>

\* command.go:95-127: BranchExists; a target that does not exist is replaced
\* by a prompt over the other local branches.
RmValidateTarget(gitOk, sel) ==
    /\ pc = "rm_exists"
    /\ IF BranchExists(targetBranch)
       THEN /\ ops' = Append(ops, <<"BranchExists", targetBranch>>)
            /\ pc' = "rm_guard"
            /\ UNCHANGED <<targetBranch, wfErr>>
       ELSE /\ ops' = ops \o <<<<"BranchExists", targetBranch>>, <<"GetLocalBranches">>>>
            /\ IF ~gitOk
               THEN /\ RmFail("branch does not exist and failed to get local branches")
                    /\ UNCHANGED targetBranch
               ELSE IF AvailableBranches = {}
               THEN /\ RmFail("branch does not exist and no other local branches available")
                    /\ UNCHANGED targetBranch
               ELSE IF sel = ""
               THEN /\ RmFail("failed to select branch")
                    /\ UNCHANGED targetBranch
               ELSE /\ sel \in AvailableBranches
                    /\ targetBranch' = sel
                    /\ pc' = "rm_guard"
                    /\ UNCHANGED wfErr
    /\ UNCHANGED <<repoVars, caller, sourceBranch, mergeOk, output, ret, cmds,
                   abortOks, preMerge, hist, calls, args, currentBranch>>
    /\ UNCHANGED <<exitCode, tagVars, ztVars>>

\* command.go:129-132
RmGuardSame ==
    /\ pc = "rm_guard"
    /\ IF SameBranch(currentBranch, targetBranch)
       THEN RmFail("already on target branch")
       ELSE /\ pc' = "rm_fetch"
            /\ UNCHANGED wfErr
    /\ UNCHANGED <<repoVars, caller, sourceBranch, mergeOk, output, ret, cmds,
                   abortOks, preMerge, hist, calls, args, currentBranch,
                   targetBranch, ops>>
    /\ UNCHANGED <<exitCode, tagVars, ztVars>>

\* command.go:134-139: git fetch origin target; a failure is only a warning.
RmFetch(gitOk) ==
    /\ pc = "rm_fetch"
    /\ gitOk => targetBranch \in Branches
    /\ ops' = Append(ops, <<"FetchBranch", targetBranch>>)
    /\ remoteBr' = IF gitOk THEN remoteBr \cup {targetBranch} ELSE remoteBr
    /\ pc' = AfterFetch(gitOk)
    /\ UNCHANGED <<head, localBr, rel, mergeState, probeMerge, failOutput, caller,
                   sourceBranch, mergeOk, output, ret, cmds, abortOks, preMerge,
                   hist, calls, args, currentBranch, targetBranch, wfErr>>
    /\ UNCHANGED <<exitCode, tagVars, ztVars>>

\* command.go:141-145: git checkout target.  It can succeed only for a branch
\* that exists locally or on origin and with no unmerged paths; it ends a
\* merge in progress, and the other branches then relate to the new HEAD.
RmCheckout(gitOk, r) ==
    /\ pc = "rm_checkout"
    /\ gitOk => (BranchExists(targetBranch) /\ mergeState # "conflicted")
    /\ ops' = Append(ops, <<"CheckoutBranch", targetBranch>>)
    /\ IF gitOk
       THEN /\ head' = targetBranch
            /\ localBr' = localBr \cup {targetBranch}
            /\ mergeState' = "none"
            /\ rel' = UniformRel(targetBranch, r)
            /\ pc' = "rm_pull"
            /\ UNCHANGED wfErr
       ELSE /\ r = "blocked"
            /\ RmFail("error checking out branch")
            /\ UNCHANGED <<head, localBr, mergeState, rel>>
    /\ UNCHANGED <<remoteBr, probeMerge, failOutput, caller, sourceBranch, mergeOk,
                   output, ret, cmds, abortOks, preMerge, hist, calls, args,
                   currentBranch, targetBranch>>
    /\ UNCHANGED <<exitCode, tagVars, ztVars>>

\* command.go:147-151: git pull.  On success HEAD may have moved: what was an
\* ancestor stays one, the rest may change.  A failed pull may leave a
\* conflicted merge.
RmPull(gitOk, r, ms) ==
    /\ pc = "rm_pull"
    /\ ops' = Append(ops, <<"PullBranch">>)
    /\ IF gitOk
       THEN /\ ms = "none"
            /\ \A b \in Branches : rel[b] = "ancestor" => UniformRel(head, r)[b] = "ancestor"
            /\ rel' = UniformRel(head, r)
            /\ mergeState' = "none"
            /\ pc' = "rm_checkprobe"
            /\ UNCHANGED wfErr
       ELSE /\ r = "blocked"
            /\ ms \in {mergeState, "conflicted"}
            /\ mergeState' = ms
            /\ RmFail("error pulling branch")
            /\ UNCHANGED rel
    /\ UNCHANGED <<head, localBr, remoteBr, probeMerge, failOutput, caller,
                   sourceBranch, mergeOk, output, ret, cmds, abortOks, preMerge,
                   hist, calls, args, currentBranch, targetBranch>>
    /\ UNCHANGED <<exitCode, tagVars, ztVars>>

\* command.go:153-155: the call of CheckMergeConflicts(currentBranch).
RmCallProbe ==
    /\ pc = "rm_checkprobe"
    /\ ops' = Append(ops, <<"CheckMergeConflicts", currentBranch>>)
    /\ EnterProbe(currentBranch, "rmerge")
    /\ UNCHANGED <<head, localBr, remoteBr, rel, mergeState, failOutput, hist,
                   calls, args, currentBranch, targetBranch, wfErr>>
    /\ UNCHANGED <<exitCode, tagVars, ztVars>>

\* command.go:155-162: the probe returned to the workflow.
RmAfterProbe ==
    /\ pc = "return"
    /\ caller = "rmerge"
    /\ LET next == AfterProbe(ret.val, ret.err) IN
        IF next = "rm_merge"
        THEN /\ pc' = next
             /\ UNCHANGED wfErr
        ELSE RmFail(next)
    /\ UNCHANGED <<repoVars, caller, sourceBranch, mergeOk, output, ret, cmds,
                   abortOks, preMerge, hist, calls, args, currentBranch,
                   targetBranch, ops>>
    /\ UNCHANGED <<exitCode, tagVars, ztVars>>

\* command.go:164-174: git merge currentBranch, the committing merge.
RmMerge(gitOk) ==
    /\ pc = "rm_merge"
    /\ gitOk => (mergeState = "none" /\ RelOf(currentBranch) \in {"ancestor", "mergeable"})
    /\ ops' = Append(ops, <<"MergeBranch", currentBranch>>)
    /\ IF gitOk
       THEN /\ rel' = [rel EXCEPT ![currentBranch] = "ancestor"]
            /\ wfErr' = "nil"
            /\ pc' = "rm_done"
            /\ UNCHANGED mergeState
       ELSE /\ mergeState' = IF mergeState = "none" /\ RelOf(currentBranch) = "conflicting"
                             THEN "conflicted" ELSE mergeState
            /\ RmFail("failed to merge branch")
            /\ UNCHANGED rel
    /\ UNCHANGED <<head, localBr, remoteBr, probeMerge, failOutput, caller,
                   sourceBranch, mergeOk, output, ret, cmds, abortOks, preMerge,
                   hist, calls, args, currentBranch, targetBranch>>
    /\ UNCHANGED <<exitCode, tagVars, ztVars>>

\* ------------------------------------------------------ tag template engine
\* The width of Go's int in this model.
IntBits == 5

MaxInt == 2^(IntBits - 1) - 1

MinInt == -MaxInt - 1

\* Arithmetic on int wraps around.
WrapInt(n) == ((n - MinInt) % 2^IntBits) + MinInt

Digits == <<"0", "1", "2", "3", "4", "5", "6", "7", "8", "9">>

\* \d
Digit == {Digits[i] : i \in 1..10}

\* [a-zA-Z]
Letter ==
    {"a", "b", "c", "d", "e", "f", "g", "h", "i", "j", "k", "l", "m", "n", "o", "p", "q", "r", "s", "t", "u", "v", "w", "x", "y", "z"} \cup
    {"A", "B", "C", "D", "E", "F", "G", "H", "I", "J", "K", "L", "M", "N", "O", "P", "Q", "R", "S", "T", "U", "V", "W", "X", "Y", "Z"}

\* \w
Word == Letter \cup Digit \cup {"_"}

AllIn(s, class) == \A i \in 1..Len(s) : s[i] \in class

\* The index of the first ch in s, 0 when there is none.
FindFirst(s, ch) ==
    IF \E i \in 1..Len(s) : s[i] = ch
    THEN CHOOSE i \in 1..Len(s) : s[i] = ch /\ \A j \in 1..(i - 1) : s[j] # ch
    ELSE 0

DigitValue(ch) == CHOOSE d \in 0..9 : Digits[d + 1] = ch

\* The number a string of digits writes.
RECURSIVE DecValue(_)
DecValue(s) ==
    IF s = <<>> THEN 0
    ELSE DecValue(SubSeq(s, 1, Len(s) - 1)) * 10 + DigitValue(s[Len(s)])

\* strconv.Atoi: an optional sign and digits; a syntax error, or a range
\* error when the number does not fit int.
Atoi(s) ==
    LET signed == s # <<>> /\ s[1] \in {"+", "-"}
        body == IF signed THEN Tail(s) ELSE s
        v == IF signed /\ s[1] = "-" THEN -DecValue(body) ELSE DecValue(body) IN
    IF body = <<>> \/ ~AllIn(body, Digit) THEN [ok |-> FALSE, val |-> 0]
    ELSE IF v > MaxInt THEN [ok |-> FALSE, val |-> MaxInt]
    ELSE IF v < MinInt THEN [ok |-> FALSE, val |-> MinInt]
    ELSE [ok |-> TRUE, val |-> v]

\* mustAtoi (tag.go:117-126): 0 for the empty string, a panic for what Atoi
\* rejects.
mustAtoi(s) ==
    IF s = <<>> THEN [panic |-> FALSE, val |-> 0]
    ELSE IF ~Atoi(s).ok THEN [panic |-> TRUE, val |-> 0]
    ELSE [panic |-> FALSE, val |-> Atoi(s).val]

\* %d of fmt.Sprintf.
RECURSIVE FormatNat(_)
FormatNat(n) ==
    IF n < 10 THEN <<Digits[n + 1]>>
    ELSE FormatNat(n \div 10) \o <<Digits[(n % 10) + 1]>>

FormatInt(n) == IF n < 0 THEN <<"-">> \o FormatNat(-n) ELSE FormatNat(n)

\* \d+
IsDigits(s) == s # <<>> /\ AllIn(s, Digit)

\* (?P<major>\d+)\.(?P<minor>\d+)\.(?P<patch>\d+) against the whole of s: as
\* no \d is a ".", the groups are what the first two "." separate.
VersionGroups(s) ==
    LET i == FindFirst(s, ".")
        rest == IF i = 0 THEN <<>> ELSE SubSeq(s, i + 1, Len(s))
        j == FindFirst(rest, ".")
        major == IF i = 0 THEN <<>> ELSE SubSeq(s, 1, i - 1)
        minor == IF j = 0 THEN <<>> ELSE SubSeq(rest, 1, j - 1)
        patch == IF j = 0 THEN <<>> ELSE SubSeq(rest, j + 1, Len(rest)) IN
    [ok |-> i > 0 /\ j > 0 /\ IsDigits(major) /\ IsDigits(minor) /\ IsDigits(patch),
     major |-> major, minor |-> minor, patch |-> patch]

\* ^([a-zA-Z]+)-v(?P<major>\d+)\.(?P<minor>\d+)\.(?P<patch>\d+)$ (tag.go:62):
\* as no letter is a "-", the letters end at the first "-".
Template1Groups(tag) ==
    LET i == FindFirst(tag, "-")
        prefix == IF i = 0 THEN <<>> ELSE SubSeq(tag, 1, i - 1)
        after == IF i = 0 THEN <<>> ELSE SubSeq(tag, i + 1, Len(tag))
        v == VersionGroups(IF after = <<>> THEN <<>> ELSE Tail(after)) IN
    [ok |-> /\ prefix # <<>>
            /\ AllIn(prefix, Letter)
            /\ after # <<>>
            /\ Head(after) = "v"
            /\ v.ok,
     major |-> v.major, minor |-> v.minor, patch |-> v.patch]

Template2GroupsUnanchored(tag) ==
    LET At(s) ==
            LET rest == IF s = <<>> THEN <<>> ELSE Tail(s)
                j == FindFirst(rest, "-")
                version == IF j = 0 THEN rest ELSE SubSeq(rest, 1, j - 1)
                suffix == IF j = 0 THEN <<>> ELSE SubSeq(rest, j + 1, Len(rest))
                v == VersionGroups(version) IN
            [ok |-> /\ s # <<>>
                    /\ Head(s) = "v"
                    /\ v.ok
                    /\ j > 0 => (suffix # <<>> /\ AllIn(suffix, Word)),
             major |-> v.major, minor |-> v.minor, patch |-> v.patch]
        Starts == {i \in 1..Len(tag) : At(SubSeq(tag, i, Len(tag))).ok} IN
    IF Starts # {}
    THEN At(SubSeq(tag, CHOOSE i \in Starts : \A k \in Starts : i <= k, Len(tag)))
    ELSE At(tag)

\* ^v(?P<major>\d+)\.(?P<minor>\d+)\.(?P<patch>\d+)(-(\w+))?$ (tag.go:91): as
\* the version holds no "-", the suffix starts at the first "-".
Template2Groups(tag) ==
    LET rest == IF tag = <<>> THEN <<>> ELSE Tail(tag)
        j == FindFirst(rest, "-")
        version == IF j = 0 THEN rest ELSE SubSeq(rest, 1, j - 1)
        suffix == IF j = 0 THEN <<>> ELSE SubSeq(rest, j + 1, Len(rest))
        v == VersionGroups(version) IN
    [ok |-> /\ tag # <<>>
            /\ Head(tag) = "v"
            /\ v.ok
            /\ j > 0 => (suffix # <<>> /\ AllIn(suffix, Word)),
     major |-> v.major, minor |-> v.minor, patch |-> v.patch]

\* supportedTagTemplates: TagTemplate1, then TagTemplate2.
supportedTagTemplates == <<1, 2>>

\* t.Regex().FindStringSubmatch(tag)
FindStringSubmatch(t, tag) ==
    IF t = 1 THEN Template1Groups(tag) ELSE Template2Groups(tag)

\* t.Regex().MatchString(tag)
MatchString(t, tag) == FindStringSubmatch(t, tag).ok

EnvQC == <<"q", "c">>
EnvStg == <<"s", "t", "g">>
EnvProd == <<"p", "r", "o", "d">>
Envs == {EnvQC, EnvStg, EnvProd}

LevelBug == "b"
LevelMinor == "m"
LevelMajor == "M"

ZeroComponents == [Major |-> 0, Minor |-> 0, Patch |-> 0]

\* Extractor of either template (tag.go:65-82, 94-111).
Extractor(t, tag) ==
    LET g == FindStringSubmatch(t, tag)
        major == mustAtoi(g.major)
        minor == mustAtoi(g.minor)
        patch == mustAtoi(g.patch) IN
    IF ~g.ok THEN [kind |-> "error", c |-> ZeroComponents]
    ELSE IF major.panic \/ minor.panic \/ patch.panic
    THEN [kind |-> "panic", c |-> ZeroComponents]
    ELSE [kind |-> "ok",
          c |-> [Major |-> major.val, Minor |-> minor.val, Patch |-> patch.val]]

\* TagComponents.Next (tag.go:35-50)
TagComponentsNext(c, lvl) ==
    CASE lvl = LevelMajor -> [Major |-> WrapInt(c.Major + 1), Minor |-> 0, Patch |-> 0]
      [] lvl = LevelMinor -> [c EXCEPT !.Minor = WrapInt(c.Minor + 1), !.Patch = 0]
      [] lvl = LevelBug -> [c EXCEPT !.Patch = WrapInt(c.Patch + 1)]
      [] OTHER -> [c EXCEPT !.Patch = WrapInt(c.Patch + 1)]

GeneratorAlwaysQC(t, c, e) ==
    LET version == FormatInt(c.Major) \o <<".">> \o FormatInt(c.Minor)
                       \o <<".">> \o FormatInt(c.Patch) IN
    IF t = 1 THEN EnvQC \o <<"-", "v">> \o version
    ELSE <<"v">> \o version \o <<"-">> \o EnvQC

\* Generator of either template (tag.go:84-86, 113-115).
Generator(t, c, e) ==
    LET version == FormatInt(c.Major) \o <<".">> \o FormatInt(c.Minor)
                       \o <<".">> \o FormatInt(c.Patch) IN
    IF t = 1 THEN e \o <<"-", "v">> \o version
    ELSE <<"v">> \o version \o <<"-">> \o e

NoTagRes == [kind |-> "none", tag |-> <<>>, err |-> ""]

\* GenerateNextTag's result when no template matches (tag.go:25).
NoTemplateMatchedGivesBaseline ==
    [kind |-> "ok", tag |-> <<"v", "0", ".", "0", ".", "1">>, err |-> ""]

NoTemplateMatched ==
    [kind |-> "error", tag |-> <<>>, err |-> "tag does not match any supported template"]

\* The first supported template whose regex matches, 0 when none does.
FirstMatch(tag) ==
    IF \E i \in 1..Len(supportedTagTemplates) : MatchString(supportedTagTemplates[i], tag)
    THEN supportedTagTemplates[
             CHOOSE i \in 1..Len(supportedTagTemplates) :
                 /\ MatchString(supportedTagTemplates[i], tag)
                 /\ \A j \in 1..(i - 1) : ~MatchString(supportedTagTemplates[j], tag)]
    ELSE 0

\* The same loop over another list of templates.
FirstMatchIn(templates, tag) ==
    IF \E i \in 1..Len(templates) : MatchString(templates[i], tag)
    THEN templates[CHOOSE i \in 1..Len(templates) :
                       /\ MatchString(templates[i], tag)
                       /\ \A j \in 1..(i - 1) : ~MatchString(templates[j], tag)]
    ELSE 0

\* What GenerateNextTag does with the template t it found (tag.go:17-25).
GenerateWith(t, tag, lvl, e) ==
    IF t = 0 THEN NoTemplateMatched
    ELSE LET r == Extractor(t, tag) IN
         CASE r.kind = "panic" ->
                 [kind |-> "panic", tag |-> <<>>, err |-> "Regex matched non-integer value"]
           [] r.kind = "error" ->
                 [kind |-> "error", tag |-> <<>>, err |-> "tag does not match template"]
           [] OTHER ->
                 [kind |-> "ok", tag |-> Generator(t, TagComponentsNext(r.c, lvl), e),
                  err |-> ""]

\* GenerateNextTag as a function of its parameters (tag.go:14-26), and over
\* another list of templates.
GenerateNextTag(tag, lvl, e) == GenerateWith(FirstMatch(tag), tag, lvl, e)

GenerateNextTagOver(templates, tag, lvl, e) ==
    GenerateWith(FirstMatchIn(templates, tag), tag, lvl, e)

\* tag.go:15-16, 25: the loop over the templates.
TagMatch ==
    /\ pc = "idle"
    /\ template' = FirstMatch(oldTag)
    /\ IF template' = 0
       THEN /\ tagRes' = NoTemplateMatched
            /\ pc' = "tag_done"
       ELSE /\ pc' = "tag_extract"
            /\ UNCHANGED tagRes
    /\ UNCHANGED <<repoVars, probeVars, wfVars, exitCode, ztVars, oldTag, level, env, comps>>

\* tag.go:17-20: the Extractor; its panic ends the process.
TagExtract ==
    /\ pc = "tag_extract"
    /\ LET r == Extractor(template, oldTag) IN
        CASE r.kind = "panic" ->
                /\ tagRes' = [kind |-> "panic", tag |-> <<>>,
                              err |-> "Regex matched non-integer value"]
                /\ pc' = "tag_done"
                /\ UNCHANGED comps
          [] r.kind = "error" ->
                /\ tagRes' = [kind |-> "error", tag |-> <<>>,
                              err |-> "tag does not match template"]
                /\ pc' = "tag_done"
                /\ UNCHANGED comps
          [] OTHER ->
                /\ comps' = r.c
                /\ pc' = "tag_next"
                /\ UNCHANGED tagRes
    /\ UNCHANGED <<repoVars, probeVars, wfVars, exitCode, ztVars, oldTag, level, env, template>>

\* tag.go:21
TagNext ==
    /\ pc = "tag_next"
    /\ comps' = TagComponentsNext(comps, level)
    /\ pc' = "tag_generate"
    /\ UNCHANGED <<repoVars, probeVars, wfVars, exitCode, ztVars, oldTag, level, env,
                   template, tagRes>>

\* tag.go:22
TagGenerate ==
    /\ pc = "tag_generate"
    /\ tagRes' = [kind |-> "ok", tag |-> Generator(template, comps, env), err |-> ""]
    /\ pc' = "tag_done"
    /\ UNCHANGED <<repoVars, probeVars, wfVars, exitCode, ztVars, oldTag, level, env,
                   template, comps>>

\* ------------------------------------------------------------------ ztag
\* The largest limit a direct call of GetLatestTags passes.
MaxLimit == 3

RefsTagsPrefix == <<"r", "e", "f", "s", "/", "t", "a", "g", "s", "/">>

\* The tag GetLatestTags returns for a repository without tags (git.go:102).
BaselineTag == <<"v", "0", ".", "0", ".", "0">>

Range(q) == {q[i] : i \in 1..Len(q)}

\* strings.HasPrefix and strings.TrimPrefix
HasPrefix(str, prefix) ==
    Len(str) >= Len(prefix) /\ SubSeq(str, 1, Len(prefix)) = prefix

TrimPrefix(str, prefix) ==
    IF HasPrefix(str, prefix) THEN SubSeq(str, Len(prefix) + 1, Len(str)) ELSE str

\* git ls-remote --tags --refs --sort=-creatordate, trimmed and split into
\* lines, each line split at its tabs: "<sha>\t<ref>" per tag, the most
\* recently created first; empty output is one empty line.
LsRemoteLines ==
    IF remoteTags = <<>> THEN <<<<<<>>>>>>
    ELSE [i \in 1..Len(remoteTags) |-> <<<<"s", "h", "a">>, RefsTagsPrefix \o remoteTags[i]>>]

\* git.go:88-99: the tags of the lines that are "<sha>\trefs/tags/<tag>".
RECURSIVE ParseTags(_)
ParseTags(lines) ==
    IF lines = <<>> THEN <<>>
    ELSE LET parts == Head(lines) IN
         (IF Len(parts) = 2 /\ HasPrefix(parts[2], RefsTagsPrefix)
          THEN <<TrimPrefix(parts[2], RefsTagsPrefix)>>
          ELSE <<>>) \o ParseTags(Tail(lines))

\* git.go:101-108: what is returned for the parsed tags.
LimitTagsNoBaseline(tags, limit) ==
    IF Len(tags) > limit THEN SubSeq(tags, 1, limit) ELSE tags

LimitTagsFromEnd(tags, limit) ==
    IF tags = <<>> THEN <<BaselineTag>>
    ELSE IF Len(tags) > limit THEN SubSeq(tags, Len(tags) - limit + 1, Len(tags))
    ELSE tags

LimitTags(tags, limit) ==
    IF tags = <<>> THEN <<BaselineTag>>
    ELSE IF Len(tags) > limit THEN SubSeq(tags, 1, limit)
    ELSE tags

\* GetLatestTags(limit) (git.go:79-109); gitOk: the git command succeeded.
GetLatestTags(limit, gitOk) ==
    IF ~gitOk
    THEN [tags |-> <<>>, err |-> "error running git command to get latest tags"]
    ELSE [tags |-> LimitTags(ParseTags(LsRemoteLines), limit), err |-> "nil"]

\* The commands of CreateAndPushTag (git.go:112, 115).
CmdTag(tag) == <<"tag", tag, "-m", "Release">>

CmdPushTag(tag) == <<"push", "origin", tag>>

\* `env == EnvProd && currentBranch != "main" && currentBranch != "master"`
\* (command.go:224) does not hold.
BranchAllowedAnywhere(e, branch) == TRUE

BranchAllowed(e, branch) == ~(e = EnvProd /\ branch # "main" /\ branch # "master")

\* CreateAndPushTag after `git tag` (git.go:112-114).
AfterCreateTagPushesAnyway(ok) == "zt_push"

AfterCreateTag(ok) == IF ok THEN "zt_push" ELSE "zt_done"

\* `if env == EnvQC { return nil }` (command.go:245-247) is not taken.
NeedsTicketAlways(e) == TRUE

NeedsTicket(e) == e # EnvQC

\* `return err`: the Action of a ztag subcommand ends with this error.
ZtFail(e) ==
    /\ wfErr' = e
    /\ pc' = "zt_done"

\* command.go:220-226: GetCurrentBranch and the branch rule of prod.
ZtStart(gitOk) ==
    /\ pc = "idle"
    /\ calls = 0
    /\ calls' = 1
    /\ caller' = "ztag"
    /\ ops' = <<<<"GetCurrentBranch">>>>
    /\ IF ~gitOk
       THEN /\ currentBranch' = ""
            /\ ZtFail("error running git command to get current branch")
       ELSE /\ currentBranch' = head
            /\ IF BranchAllowed(env, head)
               THEN /\ pc' = "zt_latest"
                    /\ UNCHANGED wfErr
               ELSE ZtFail("only main/master branches are allowed")
    /\ UNCHANGED <<branchVars, probeLocals, tagVars, ztVars>>

\* command.go:228-233: GetLatestTags(1), then the call of GenerateNextTag on
\* the first tag returned.
ZtLatestTags(gitOk) ==
    /\ pc = "zt_latest"
    /\ ops' = Append(ops, <<"GetLatestTags", 1>>)
    /\ LET r == GetLatestTags(1, gitOk) IN
        IF r.err # "nil"
        THEN /\ ZtFail(r.err)
             /\ UNCHANGED <<latestTags, oldTag>>
        ELSE /\ latestTags' = r.tags
             /\ oldTag' = r.tags[1]
             /\ pc' = "idle"
             /\ UNCHANGED wfErr
    /\ UNCHANGED <<branchVars, probeLocals, caller, calls, currentBranch, level, env,
                   template, comps, tagRes, remoteTags, localTags, nextTag,
                   jiraTicket, tagCmds>>

\* GenerateNextTag called by the workflow.
ZtGenerateNextTag ==
    /\ caller = "ztag"
    /\ TagMatch

\* command.go:233-238: GenerateNextTag returned, or its panic ended the
\* process.
ZtAfterGenerate ==
    /\ pc = "tag_done"
    /\ caller = "ztag"
    /\ CASE tagRes.kind = "panic" ->
                /\ pc' = "zt_crashed"
                /\ UNCHANGED <<wfErr, nextTag>>
         [] tagRes.kind = "error" ->
                /\ ZtFail(tagRes.err)
                /\ UNCHANGED nextTag
         [] OTHER ->
                /\ nextTag' = tagRes.tag
                /\ pc' = "zt_tag"
                /\ UNCHANGED wfErr
    /\ UNCHANGED <<branchVars, probeLocals, caller, calls, currentBranch, ops,
                   tagVars, remoteTags, localTags, latestTags, jiraTicket, tagCmds>>

\* command.go:239, git.go:112-114: git tag; it fails for a tag that exists.
ZtCreateTag(gitOk) ==
    /\ pc = "zt_tag"
    /\ gitOk => nextTag \notin localTags
    /\ ops' = Append(ops, <<"CreateAndPushTag", nextTag>>)
    /\ tagCmds' = Append(tagCmds, [cmd |-> CmdTag(nextTag), ok |-> gitOk])
    /\ localTags' = IF gitOk THEN localTags \cup {nextTag} ELSE localTags
    /\ pc' = AfterCreateTag(gitOk)
    /\ wfErr' = IF AfterCreateTag(gitOk) = "zt_done"
                THEN "error running git command to create tag"
                ELSE wfErr
    /\ UNCHANGED <<branchVars, probeLocals, caller, calls, currentBranch, tagVars,
                   remoteTags, latestTags, nextTag, jiraTicket>>

\* git.go:115-118, command.go:240-247: git push origin tag; QC ends here.
ZtPushTag(gitOk) ==
    /\ pc = "zt_push"
    /\ tagCmds' = Append(tagCmds, [cmd |-> CmdPushTag(nextTag), ok |-> gitOk])
    /\ IF ~gitOk
       THEN /\ ZtFail("error running git command to push tag")
            /\ UNCHANGED remoteTags
       ELSE /\ remoteTags' = IF nextTag \in Range(remoteTags) THEN remoteTags
                             ELSE <<nextTag>> \o remoteTags
            /\ IF NeedsTicket(env)
               THEN /\ pc' = "zt_input"
                    /\ UNCHANGED wfErr
               ELSE /\ pc' = "zt_done"
                    /\ wfErr' = "nil"
    /\ UNCHANGED <<branchVars, probeLocals, caller, calls, currentBranch, ops, tagVars,
                   localTags, latestTags, nextTag, jiraTicket>>

\* command.go:249-252: the required ticket prompt; answer "" is a failed or
\* cancelled prompt, as the prompt accepts no empty answer.
ZtInput(answer) ==
    /\ pc = "zt_input"
    /\ ops' = Append(ops, <<"Input">>)
    /\ IF answer = ""
       THEN /\ ZtFail("prompt failed")
            /\ UNCHANGED jiraTicket
       ELSE /\ jiraTicket' = answer
            /\ pc' = "zt_project"
            /\ UNCHANGED wfErr
    /\ UNCHANGED <<branchVars, probeLocals, caller, calls, currentBranch, tagVars,
                   remoteTags, localTags, latestTags, nextTag, tagCmds>>

\* command.go:254-257: ExtractProjectID
ZtProjectID(gitOk) ==
    /\ pc = "zt_project"
    /\ ops' = Append(ops, <<"ExtractProjectID">>)
    /\ IF gitOk
       THEN /\ pc' = "zt_release"
            /\ UNCHANGED wfErr
       ELSE ZtFail("error extracting project id")
    /\ UNCHANGED <<branchVars, probeLocals, caller, calls, currentBranch, tagVars,
                   ztVars>>

\* command.go:259-266: CreateZalopayRelease, the release notification.
ZtRelease(ok) ==
    /\ pc = "zt_release"
    /\ ops' = Append(ops, <<"CreateZalopayRelease", nextTag, jiraTicket>>)
    /\ wfErr' = IF ok THEN "nil" ELSE "error running git command to create release"
    /\ pc' = "zt_done"
    /\ UNCHANGED <<branchVars, probeLocals, caller, calls, currentBranch, tagVars,
                   ztVars>>

\* A direct call of the exported GetLatestTags(limit).
CallGetLatestTags(limit, gitOk) ==
    /\ pc = "idle"
    /\ calls = 0
    /\ calls' = 1
    /\ caller' = "direct"
    /\ ops' = <<<<"GetLatestTags", limit>>>>
    /\ latestTags' = GetLatestTags(limit, gitOk).tags
    /\ wfErr' = GetLatestTags(limit, gitOk).err
    /\ pc' = "glt_done"
    /\ UNCHANGED <<branchVars, probeLocals, currentBranch, tagVars, remoteTags,
                   localTags, nextTag, jiraTicket, tagCmds>>

\* ------------------------------------------------------------ process exit
\* The process is still running.
NoExit == -1

\* main returns after cmd.Execute(): the process ends with status 0.
MainReturn == 0

\* cli.go:175-190: ExitErrHandler; a non-nil error ends the process with
\* os.Exit(1), nil lets app.Run return.
ExitErrHandlerIgnoresConflicts(e) ==
    IF e \in {"nil", "merge conflicts detected"} THEN NoExit ELSE 1

ExitErrHandler(e) == IF e = "nil" THEN NoExit ELSE 1

\* The Action of rmerge returned e: app.Run hands it to ExitErrHandler, then
\* Execute and main return.
RmExit ==
    /\ pc = "rm_done"
    /\ exitCode' = IF ExitErrHandler(wfErr) # NoExit
                   THEN ExitErrHandler(wfErr)
                   ELSE MainReturn
    /\ pc' = "exited"
    /\ UNCHANGED <<repoVars, probeVars, wfVars, tagVars, ztVars>>

\* What every specification starts from, the repository apart.
InitProgram ==
    /\ probeMerge = FALSE
    /\ pc = "idle"
    /\ caller = "none"
    /\ sourceBranch = ""
    /\ mergeOk = FALSE
    /\ output = <<>>
    /\ ret = NoRet
    /\ cmds = <<>>
    /\ abortOks = <<>>
    /\ preMerge = "none"
    /\ hist = <<>>
    /\ calls = 0
    /\ args = <<>>
    /\ currentBranch = ""
    /\ targetBranch = ""
    /\ ops = <<>>
    /\ wfErr = "running"
    /\ exitCode = NoExit
    /\ latestTags = <<>>
    /\ nextTag = <<>>
    /\ jiraTicket = ""
    /\ tagCmds = <<>>

\* No call of GenerateNextTag is made.
InitNoTag ==
    /\ oldTag = <<>>
    /\ level = ""
    /\ env = <<>>
    /\ template = 0
    /\ comps = ZeroComponents
    /\ tagRes = NoTagRes

\* Any repository, as far as the probe reads it.
InitProbe ==
    /\ head \in Branches
    /\ localBr = Branches
    /\ remoteBr = {}
    /\ rel \in RelMaps(head)
    /\ mergeState \in MergeStates
    /\ failOutput \in FailOutputs
    /\ remoteTags = <<>>
    /\ localTags = {}
    /\ InitProgram
    /\ InitNoTag

NextProbe ==
    \/ \E src \in BranchNames : CallProbe(src)
    \/ ProbeIsAncestor
    \/ ProbeMerge
    \/ ProbeAbortOk
    \/ ProbeAbortConflict
    \/ ProbeAbortOther
    \/ ProbeDeferred
    \/ ProbeReturn

SpecProbe == InitProbe /\ [][NextProbe]_vars

\* The repository "aio git rmerge" is run in.
Init ==
    /\ head \in Branches
    /\ localBr \in {l \in SUBSET Branches : head \in l}
    /\ remoteBr \in SUBSET Branches
    /\ rel \in UniformRelMaps(head)
    /\ mergeState \in MergeStates
    /\ failOutput \in FailOutputs
    /\ remoteTags = <<>>
    /\ localTags = {}
    /\ InitProgram
    /\ InitNoTag

\* The command line: no argument, or a target branch name.
ArgLists == {<<>>} \cup {<<b>> : b \in BranchNames}

\* A prompt's answer: a branch, or "" for a failed prompt.
Answers == Branches \cup {""}

Next ==
    \/ \E argv \in ArgLists, gitOk \in BOOLEAN : RmStart(argv, gitOk)
    \/ \E gitOk \in BOOLEAN, sel \in Answers : RmResolveTarget(gitOk, sel)
    \/ \E gitOk \in BOOLEAN, sel \in Answers : RmValidateTarget(gitOk, sel)
    \/ RmGuardSame
    \/ \E gitOk \in BOOLEAN : RmFetch(gitOk)
    \/ \E gitOk \in BOOLEAN, r \in Relations : RmCheckout(gitOk, r)
    \/ \E gitOk \in BOOLEAN, r \in Relations, ms \in MergeStates : RmPull(gitOk, r, ms)
    \/ RmCallProbe
    \/ ProbeIsAncestor
    \/ ProbeMerge
    \/ ProbeAbortOk
    \/ ProbeAbortConflict
    \/ ProbeAbortOther
    \/ ProbeDeferred
    \/ RmAfterProbe
    \/ \E gitOk \in BOOLEAN : RmMerge(gitOk)
    \/ RmExit

Spec == Init /\ [][Next]_vars

\* ------------------------------------------------- GenerateNextTag's inputs
\* Version segments: small numbers, a leading zero, the largest int and the
\* first number past it.
VersionSegments ==
    {<<"0">>, <<"9">>, <<"0", "7">>, FormatInt(MaxInt), FormatNat(MaxInt + 1)}

Versions ==
    {a \o <<".">> \o b \o <<".">> \o c :
        a \in VersionSegments, b \in VersionSegments, c \in VersionSegments}
        \cup {<<"1", ".", "2", ".", "3">>}

\* <letters>-v<M>.<m>.<p>
Prefixes == {<<"q", "c">>, <<"s", "t", "g">>, <<"p", "r", "o", "d">>, <<"R", "e", "l">>}

Template1Tags == {p \o <<"-", "v">> \o v : p \in Prefixes, v \in Versions}

\* v<M>.<m>.<p> and v<M>.<m>.<p>-<suffix>
Suffixes == {<<"b", "e", "t", "a">>, <<"r", "c", "_", "1">>}

Template2Tags ==
    {<<"v">> \o v : v \in Versions}
        \cup {<<"v">> \o v \o <<"-">> \o x : v \in Versions, x \in Suffixes}

\* Tags of neither form.
OtherTags ==
    {<<>>, <<"n", "o", "t", "-", "a", "-", "t", "a", "g">>, <<"v", "1", ".", "2">>, <<"1", ".", "2", ".", "3">>, <<"q", "c", "-", "1", ".", "2", ".", "3">>, <<"q", "c", "-", "v", "1", ".", "2", ".", "3", "-", "b", "e", "t", "a">>, <<"v", "1", ".", "2", ".", "3", "-">>, <<"v", "1", ".", "2", ".", "3", "-", "r", "c", ".", "1">>, <<"q", "1", "-", "v", "1", ".", "2", ".", "3">>, <<"v", "v", "1", ".", "2", ".", "3">>, <<"v", "1", ".", ".", "3">>}

\* Tags close to both forms.
EdgeTags == {<<"v", "-", "v", "1", ".", "2", ".", "3">>, <<"v", "1", ".", "2", ".", "3", "-", "v", "1">>, <<"v", "1", "-", "v", "1", ".", "2", ".", "3">>, <<"v", "1", ".", "2", ".", "3", "-", "v", "1", ".", "2", ".", "3">>}

Tags == Template1Tags \cup Template2Tags \cup OtherTags \cup EdgeTags

\* The value of --level: the three levels, or anything else.
Levels == {LevelBug, LevelMinor, LevelMajor, "x"}

\* A call GenerateNextTag(oldTag, level, env).
InitTag ==
    /\ head = "main"
    /\ localBr = Branches
    /\ remoteBr = {}
    /\ rel = UniformRel("main", "ancestor")
    /\ mergeState = "none"
    /\ failOutput = OutContent
    /\ remoteTags = <<>>
    /\ localTags = {}
    /\ InitProgram
    /\ oldTag \in Tags
    /\ level \in Levels
    /\ env \in Envs
    /\ template = 0
    /\ comps = ZeroComponents
    /\ tagRes = NoTagRes

NextTag ==
    \/ TagMatch
    \/ TagExtract
    \/ TagNext
    \/ TagGenerate

SpecTag == InitTag /\ [][NextTag]_vars

\* -------------------------------------------------------- ztag's repository
\* The tags on origin, the most recently created first.
RemoteTagLists ==
    {<<>>,
     <<<<"v", "1", ".", "2", ".", "3">>>>,
     <<<<"q", "c", "-", "v", "0", ".", "0", ".", "9">>, <<"v", "1", ".", "2", ".", "3">>>>,
     <<<<"v", "1", ".", "2", ".", "3">>, <<"q", "c", "-", "v", "0", ".", "0", ".", "9">>>>,
     <<<<"n", "o", "t", "-", "a", "-", "t", "a", "g">>, <<"v", "1", ".", "2", ".", "3">>>>,
     <<<<"v", "1", ".", "2", ".", "3">>, <<"q", "c", "-", "v", "0", ".", "0", ".", "9">>, <<"n", "o", "t", "-", "a", "-", "t", "a", "g">>, <<"v", "0", ".", "0", ".", "0">>>>,
     <<<<"v">> \o FormatInt(MaxInt) \o <<".", "0", ".", "0">>>>,
     <<<<"v">> \o FormatNat(MaxInt + 1) \o <<".", "0", ".", "0">>>>}

\* The answer to the ticket prompt; "" stands for a failed prompt.
TicketAnswers == {"", "JIRA-1"}

\* One run of "aio ztag <env> --level <level>", or one direct call of
\* GetLatestTags.
InitZtag ==
    /\ head \in Branches \cup {"master"}
    /\ localBr = Branches
    /\ remoteBr = {}
    /\ rel = UniformRel("main", "ancestor")
    /\ mergeState = "none"
    /\ failOutput = OutContent
    /\ remoteTags \in RemoteTagLists
    /\ localTags \in {{}, Range(remoteTags)}
    /\ InitProgram
    /\ oldTag = <<>>
    /\ level \in Levels
    /\ env \in Envs
    /\ template = 0
    /\ comps = ZeroComponents
    /\ tagRes = NoTagRes

NextZtag ==
    \/ \E gitOk \in BOOLEAN : ZtStart(gitOk)
    \/ \E gitOk \in BOOLEAN : ZtLatestTags(gitOk)
    \/ ZtGenerateNextTag
    \/ TagExtract
    \/ TagNext
    \/ TagGenerate
    \/ ZtAfterGenerate
    \/ \E gitOk \in BOOLEAN : ZtCreateTag(gitOk)
    \/ \E gitOk \in BOOLEAN : ZtPushTag(gitOk)
    \/ \E answer \in TicketAnswers : ZtInput(answer)
    \/ \E gitOk \in BOOLEAN : ZtProjectID(gitOk)
    \/ \E ok \in BOOLEAN : ZtRelease(ok)
    \/ \E limit \in 1..MaxLimit, gitOk \in BOOLEAN : CallGetLatestTags(limit, gitOk)

SpecZtag == InitZtag /\ [][NextZtag]_vars


\* ================================================================== claims
\* CheckMergeConflicts has returned: its deferred function has run.
Returned == pc = "return"

IsSpeculativeMerge(c) == c = CmdMergeNoCommit(sourceBranch)

IssuedMerge == \E i \in 1..Len(cmds) : IsSpeculativeMerge(cmds[i])

AbortAfterEveryMerge ==
    \A i \in 1..Len(cmds) :
        IsSpeculativeMerge(cmds[i]) => \E j \in (i + 1)..Len(cmds) : cmds[j] = CmdAbort

AbortCount == Cardinality({i \in 1..Len(cmds) : cmds[i] = CmdAbort})

ContainsMarker(out) ==
    \/ Contains(out, MarkerUpper)
    \/ Contains(out, MarkerLower)
    \/ Contains(out, MarkerAuto)

\* C1: when CheckMergeConflicts returns, on each of its exit paths, every
\* speculative merge it ran is followed by a "merge --abort" and no merge
\* started by the probe is still in progress.
C1_NoProbeMergeLeft ==
    Returned => /\ AbortAfterEveryMerge
                /\ ~(probeMerge /\ mergeState # "none")

\* C1 witness: the probe started a merge that ended in conflicts, and returned.
C1_Witness ==
    /\ Returned
    /\ IssuedMerge
    /\ preMerge = "none"
    /\ RelOf(sourceBranch) = "conflicting"
    /\ mergeState = "none"

\* C2 as stated: for every pre-call state, a merge already in progress
\* included, the merge state after the return equals the one before the call.
C2_Original == Returned => mergeState = preMerge

\* C2 amended: after the return no merge is in progress; the merge state
\* equals the one before the call exactly when no merge was in progress
\* before it (a merge already in progress is aborted by the probe).
C2_RestoredUnlessMerging ==
    Returned => /\ mergeState = "none"
                /\ (mergeState = preMerge) <=> (preMerge = "none")

\* C2 witness: the speculative merge succeeded on a tree with no merge in
\* progress, and the probe returned.
C2_Witness ==
    /\ Returned
    /\ preMerge = "none"
    /\ mergeOk
    /\ IssuedMerge

\* C3: when sourceBranch is already an ancestor of HEAD, the probe returns
\* (false, nil) and never issues the speculative merge.
C3_AncestorFastPath ==
    (pc # "idle" /\ GitIsAncestor(sourceBranch)) =>
        /\ ~IssuedMerge
        /\ pc # "merge"
        /\ Returned => ret = [val |-> FALSE, err |-> NoErr]

\* C3 witness: the probe returned for an ancestor.
C3_Witness ==
    /\ Returned
    /\ GitIsAncestor(sourceBranch)
    /\ cmds[1] = CmdIsAncestor(sourceBranch)

\* The case of C4: not an ancestor, the merge failed, its output has "CONFLICT".
C4_Case ==
    /\ Returned
    /\ ~GitIsAncestor(sourceBranch)
    /\ IssuedMerge
    /\ ~mergeOk
    /\ Contains(output, MarkerUpper)

\* C4 as stated: in that case the probe returns (true, nil) and the abort
\* command is issued exactly once.
C4_Original ==
    C4_Case => /\ ret = [val |-> TRUE, err |-> NoErr]
               /\ AbortCount = 1

\* C4 amended: in that case the probe returns (true, nil) and the abort
\* command is issued exactly twice, once by the conflict branch and once by
\* the deferred cleanup, both after the merge.
C4_ConflictAbortedTwice ==
    C4_Case => /\ ret = [val |-> TRUE, err |-> NoErr]
               /\ AbortCount = 2
               /\ cmds = <<CmdIsAncestor(sourceBranch), CmdMergeNoCommit(sourceBranch),
                           CmdAbort, CmdAbort>>

\* C4 witness: a real conflict was reported.
C4_Witness ==
    /\ C4_Case
    /\ RelOf(sourceBranch) = "conflicting"
    /\ ret.val

\* C5: a failed speculative merge whose output has no conflict marker gives
\* an error carrying the output, never true and never (false, nil).
C5_OtherFailureIsError ==
    (Returned /\ IssuedMerge /\ ~mergeOk /\ ~ContainsMarker(output)) =>
        /\ ret.err = ProbeExecutionError(output)
        /\ ret.val = FALSE

\* C5 witness: the merge failed printing a message without a marker.
C5_Witness ==
    /\ Returned
    /\ IssuedMerge
    /\ ~mergeOk
    /\ output = OutDirty
    /\ ret.err.kind = "error checking merge conflicts"

\* C6: when the source is no ancestor and the speculative merge succeeds, the
\* probe issues the abort, returns (false, nil), and the uncommitted merge is
\* gone.
C6_SuccessAborted ==
    (Returned /\ ~GitIsAncestor(sourceBranch) /\ IssuedMerge /\ mergeOk) =>
        /\ ret = [val |-> FALSE, err |-> NoErr]
        /\ AbortAfterEveryMerge
        /\ mergeState = "none"

\* C6 witness: a mergeable branch was probed.
C6_Witness ==
    /\ Returned
    /\ mergeOk
    /\ RelOf(sourceBranch) = "mergeable"
    /\ AbortCount >= 1

\* The result the probe's own steps decide, aborts apart.
PrimaryResult ==
    IF ~IssuedMerge THEN [val |-> FALSE, err |-> NoErr]
    ELSE IF mergeOk THEN [val |-> FALSE, err |-> NoErr]
    ELSE IF ContainsMarker(output) THEN [val |-> TRUE, err |-> NoErr]
    ELSE [val |-> FALSE, err |-> ProbeExecutionError(output)]

\* C7: the returned value and error are the primary result whatever the
\* aborts did; an abort's failure is never returned.
C7_AbortFailureSwallowed ==
    Returned => /\ ret = PrimaryResult
                /\ ret.err # AbortError

\* C7 witness: in one call an abort succeeded and an abort failed.
C7_Witness ==
    /\ Returned
    /\ \E i \in 1..Len(abortOks) : abortOks[i]
    /\ \E i \in 1..Len(abortOks) : ~abortOks[i]

\* C7 witness of the other outcome: the only abort of a call succeeded.
C7_WitnessAbortOk ==
    /\ Returned
    /\ abortOks = <<TRUE>>
    /\ ret = [val |-> FALSE, err |-> NoErr]

\* Two calls in a row with the same sourceBranch.
TwiceInARow(i) ==
    /\ i + 1 <= Len(hist)
    /\ hist[i].src = hist[i + 1].src

\* C8 as stated: two calls in a row with the same sourceBranch leave the
\* tree in the state it started in and return the same result.
C8_Original ==
    \A i \in 1..Len(hist) :
        TwiceInARow(i) => /\ hist[i + 1].post = hist[i].pre
                          /\ hist[i + 1].ret = hist[i].ret

\* C8 amended: this holds when no merge is in progress before the first call.
C8_TwiceFromCleanTree ==
    \A i \in 1..Len(hist) :
        (TwiceInARow(i) /\ hist[i].pre = "none") =>
            /\ hist[i + 1].post = hist[i].pre
            /\ hist[i + 1].ret = hist[i].ret

\* C8 witness: two calls in a row that both reported a conflict.
C8_Witness ==
    /\ Len(hist) >= 2
    /\ TwiceInARow(1)
    /\ hist[1].pre = "none"
    /\ hist[1].ret.val
    /\ hist[2].ret.val

\* The git package functions the running workflow has called.
Called(fn) == \E i \in 1..Len(ops) : ops[i][1] = fn

CallCount(fn) == Cardinality({i \in 1..Len(ops) : ops[i][1] = fn})

IsFailure(e) == e \notin {"running", "nil"}

\* The probe called by the workflow has returned.
ProbeReturnedToWorkflow ==
    /\ caller = "rmerge"
    /\ pc \in {"return", "rm_merge", "rm_done", "exited"}

\* C9: in an rmerge run whose probe returned true or an error, MergeBranch is
\* never called and the run ends with an error.
C9_NoMergeAfterConflict ==
    (ProbeReturnedToWorkflow /\ (ret.val \/ ret.err # NoErr)) =>
        /\ ~Called("MergeBranch")
        /\ pc # "rm_merge"
        /\ pc \in {"rm_done", "exited"} => IsFailure(wfErr)

\* C9 witness: a run ended after its probe reported a conflict.
C9_Witness ==
    /\ pc = "rm_done"
    /\ caller = "rmerge"
    /\ ret = [val |-> TRUE, err |-> NoErr]
    /\ wfErr = "merge conflicts detected"

\* C9 witness of the other case: a run ended after its probe failed.
C9_WitnessProbeError ==
    /\ pc = "rm_done"
    /\ caller = "rmerge"
    /\ ret.err.kind = "error checking merge conflicts"
    /\ wfErr = "failed to check merge conflicts"

\* The target is resolved: the workflow is past its existence check.
TargetResolved == pc \notin {"idle", "rm_resolve", "rm_exists"} /\ targetBranch # ""

\* C10: in an rmerge run whose resolved target is the current branch, none of
\* fetch, checkout, pull, probe and merge is called and the run ends with an
\* error.
C10_SameBranchRefused ==
    (TargetResolved /\ targetBranch = currentBranch) =>
        /\ \A fn \in {"FetchBranch", "CheckoutBranch", "PullBranch",
                      "CheckMergeConflicts", "MergeBranch"} : ~Called(fn)
        /\ cmds = <<>>
        /\ pc \in {"rm_guard", "rm_done", "exited"}
        /\ pc \in {"rm_done", "exited"} => IsFailure(wfErr)

\* C10 witness: a run was refused for naming the current branch.
C10_Witness ==
    /\ pc = "rm_done"
    /\ targetBranch = currentBranch
    /\ args = <<currentBranch>>
    /\ wfErr = "already on target branch"

\* The repository-changing operations of rmerge, in the order of the workflow.
WorkflowOps ==
    <<<<"FetchBranch", targetBranch>>, <<"CheckoutBranch", targetBranch>>,
      <<"PullBranch">>, <<"CheckMergeConflicts", currentBranch>>,
      <<"MergeBranch", currentBranch>>>>

IsWorkflowOp(op) ==
    op[1] \in {"FetchBranch", "CheckoutBranch", "PullBranch",
               "CheckMergeConflicts", "MergeBranch"}

\* Those of them the run has issued, in order.
IssuedOps == SelectSeq(ops, IsWorkflowOp)

IsPrefix(s, t) == Len(s) <= Len(t) /\ \A i \in 1..Len(s) : s[i] = t[i]

\* The number of workflow operations issued when the run reported failure e.
OpsAtFailure(e) ==
    CASE e = "error checking out branch" -> 2
      [] e = "error pulling branch" -> 3
      [] e \in {"failed to check merge conflicts", "merge conflicts detected"} -> 4
      [] e = "failed to merge branch" -> 5
      [] OTHER -> 0

\* C11: the operations an rmerge run has issued are a prefix of fetch target,
\* checkout target, pull, conflict probe, merge current; and a run that
\* reported a failure of checkout, pull, the probe or the merge issued
\* nothing after the failed operation.
C11_StraightLine ==
    /\ IsPrefix(IssuedOps, WorkflowOps)
    /\ wfErr \in {"error checking out branch", "error pulling branch",
                  "failed to check merge conflicts", "merge conflicts detected",
                  "failed to merge branch"}
        => Len(IssuedOps) = OpsAtFailure(wfErr)
    /\ IsFailure(wfErr) => pc \in {"rm_done", "exited"}

\* C11 witness: a run ended at a failed pull, after fetch and checkout.
C11_Witness ==
    /\ pc = "exited"
    /\ wfErr = "error pulling branch"
    /\ IssuedOps = SubSeq(WorkflowOps, 1, 3)

\* C11 witness of a whole run: all five operations, in order.
C11_WitnessAllFive ==
    /\ pc = "exited"
    /\ wfErr = "nil"
    /\ IssuedOps = WorkflowOps

\* C12: a fetch step that brings nothing, as every failed fetch does, leaves
\* the run going: it reports no error and checkout is the next step.
C12_FetchFailureNotFatal ==
    [][(pc = "rm_fetch" /\ remoteBr' = remoteBr)
        => (pc' = "rm_checkout" /\ wfErr' = "running")]_vars

\* C12 witness: a run whose fetch failed (the target is still not on origin)
\* went through checkout and ended successfully.
C12_Witness ==
    /\ pc = "exited"
    /\ wfErr = "nil"
    /\ Called("FetchBranch")
    /\ Called("CheckoutBranch")
    /\ targetBranch \notin remoteBr

\* The run is past the existence check of its target.
PastValidation ==
    \/ pc \in {"rm_guard", "rm_fetch"}
    \/ Called("FetchBranch")
    \/ Called("CheckoutBranch")

\* C13: past the existence check the target is a local or remote branch, and
\* fetch and checkout are called for that target only; a run given a target
\* that does not exist, with no other local branch, fails with none of the
\* workflow operations called.
C13_TargetExists ==
    /\ PastValidation => (targetBranch \in localBr \/ targetBranch \in remoteBr)
    /\ \A i \in 1..Len(ops) :
          ops[i][1] \in {"FetchBranch", "CheckoutBranch"} => ops[i][2] = targetBranch
    /\ ( /\ pc \notin {"idle", "rm_resolve", "rm_exists"}
         /\ Len(args) > 0
         /\ args[1] \notin localBr \cup remoteBr
         /\ {b \in localBr : b # currentBranch} = {} )
        => /\ pc \in {"rm_done", "exited"}
           /\ IsFailure(wfErr)
           /\ IssuedOps = <<>>

\* C13 witness: a run given a branch that does not exist checked out the
\* local branch selected in its place.
C13_Witness ==
    /\ Called("CheckoutBranch")
    /\ Len(args) > 0
    /\ args[1] \notin localBr \cup remoteBr
    /\ targetBranch \in localBr
    /\ targetBranch # args[1]

\* C13 witness of the failing case: no branch to fall back to.
C13_WitnessNoBranch ==
    /\ pc = "rm_done"
    /\ Len(args) > 0
    /\ args[1] \notin localBr \cup remoteBr
    /\ wfErr = "branch does not exist and no other local branches available"

\* C14: a process that has ended has status 0 if its workflow succeeded and
\* a non-zero status if it reported a failure, a detected conflict included.
C14_ExitCode ==
    pc = "exited" =>
        /\ wfErr = "nil" => exitCode = 0
        /\ IsFailure(wfErr) => exitCode # 0
        /\ (caller = "rmerge" /\ ret = [val |-> TRUE, err |-> NoErr]) => exitCode # 0

\* C14 witness: a process ended after its probe detected conflicts.
C14_Witness ==
    /\ pc = "exited"
    /\ caller = "rmerge"
    /\ ret = [val |-> TRUE, err |-> NoErr]
    /\ exitCode = 1

\* C14 witness of the other case: a process ended after a successful run.
C14_WitnessSuccess ==
    /\ pc = "exited"
    /\ wfErr = "nil"
    /\ exitCode = 0

\* GenerateNextTag has returned, or has ended the process.
TagDone == pc = "tag_done"

\* The version a tag's segments write, as numbers.
VersionOf(g) ==
    [Major |-> DecValue(g.major), Minor |-> DecValue(g.minor), Patch |-> DecValue(g.patch)]

\* The bump rule at component k: k one greater, the lower ones 0, the higher
\* ones as they were.
BumpAt(c, k) ==
    CASE k = "Major" -> [Major |-> c.Major + 1, Minor |-> 0, Patch |-> 0]
      [] k = "Minor" -> [Major |-> c.Major, Minor |-> c.Minor + 1, Patch |-> 0]
      [] OTHER -> [Major |-> c.Major, Minor |-> c.Minor, Patch |-> c.Patch + 1]

\* The component a level bumps; an unrecognised level bumps the patch.
ComponentOf(lvl) ==
    CASE lvl = LevelMajor -> "Major"
      [] lvl = LevelMinor -> "Minor"
      [] OTHER -> "Patch"

\* <M>.<m>.<p> in decimal.
VersionText(c) ==
    FormatNat(c.Major) \o <<".">> \o FormatNat(c.Minor) \o <<".">> \o FormatNat(c.Patch)

\* C15: for a tag <letters>-v<M>.<m>.<p> GenerateNextTag returns
\* <env>-v<M'>.<m'>.<p'>, where M'.m'.p' is M.m.p bumped at the component of
\* the level.
C15_Original ==
    (TagDone /\ Template1Groups(oldTag).ok) =>
        /\ tagRes.kind = "ok"
        /\ tagRes.tag = env \o <<"-", "v">>
               \o VersionText(BumpAt(VersionOf(Template1Groups(oldTag)), ComponentOf(level)))

\* C16: Next turns the extracted components into the components bumped at
\* the component of the level, the patch for an unrecognised level.
C16_Original ==
    (pc = "tag_generate" /\ Extractor(template, oldTag).kind = "ok") =>
        comps = BumpAt(Extractor(template, oldTag).c, ComponentOf(level))

\* C17: for a tag v<M>.<m>.<p> or v<M>.<m>.<p>-<suffix> GenerateNextTag
\* returns v<M'>.<m'>.<p'>-<env>, whatever the suffix was.
C17_Original ==
    (TagDone /\ Template2Groups(oldTag).ok) =>
        /\ tagRes.kind = "ok"
        /\ tagRes.tag = <<"v">>
               \o VersionText(BumpAt(VersionOf(Template2Groups(oldTag)), ComponentOf(level)))
               \o <<"-">> \o env

\* No template's matcher accepts the tag.
NoTemplateAccepts(tag) == ~Template1Groups(tag).ok /\ ~Template2Groups(tag).ok

\* C18: for a tag no template accepts GenerateNextTag returns an error and
\* the empty string, at every level and environment.
C18_NoMatchIsError ==
    (TagDone /\ NoTemplateAccepts(oldTag)) =>
        /\ tagRes.kind = "error"
        /\ tagRes.tag = <<>>
        /\ template = 0
        /\ comps = ZeroComponents

\* C18 witness: GenerateNextTag("not-a-tag", b, qc) returned its error.
C18_Witness ==
    /\ TagDone
    /\ oldTag = <<"n", "o", "t", "-", "a", "-", "t", "a", "g">>
    /\ level = LevelBug
    /\ env = EnvQC
    /\ tagRes.kind = "error"

\* A segment of the accepted tag does not fit int.
HasUnparsableSegment(tag) ==
    \E t \in {1, 2} :
        LET g == FindStringSubmatch(t, tag) IN
            /\ g.ok
            /\ \E seg \in {g.major, g.minor, g.patch} : DecValue(seg) > MaxInt

\* C19: for an accepted tag with a segment that does not fit int,
\* GenerateNextTag returns an error and the empty string; it does not panic.
C19_Original ==
    (TagDone /\ HasUnparsableSegment(oldTag)) =>
        /\ tagRes.kind = "error"
        /\ tagRes.tag = <<>>

\* C20: the components an Extractor or Next has produced are all >= 0.
C20_Original ==
    (pc \in {"tag_next", "tag_generate"} \/ (TagDone /\ tagRes.kind = "ok")) =>
        /\ comps.Major >= 0
        /\ comps.Minor >= 0
        /\ comps.Patch >= 0

\* A run of a ztag subcommand has started.
ZtagRun == caller = "ztag"

\* C21: a prod run on a branch other than main and master has ended with an
\* error, without reading the latest tag and without creating or pushing a
\* tag; qc and stg runs are never refused for their branch.
C21_ProdNeedsMain ==
    ZtagRun =>
        /\ (env = EnvProd /\ head \notin {"main", "master"}) =>
              /\ pc = "zt_done"
              /\ IsFailure(wfErr)
              /\ ~Called("GetLatestTags")
              /\ ~Called("CreateAndPushTag")
              /\ tagCmds = <<>>
              /\ latestTags = <<>>
        /\ env # EnvProd => wfErr # "only main/master branches are allowed"

\* C21 witness: a prod run on dev was refused.
C21_Witness ==
    /\ ZtagRun
    /\ env = EnvProd
    /\ currentBranch = "dev"
    /\ pc = "zt_done"
    /\ wfErr = "only main/master branches are allowed"

\* C21 witness of the other case: a stg run on dev pushed its tag.
C21_WitnessStg ==
    /\ ZtagRun
    /\ env = EnvStg
    /\ currentBranch = "dev"
    /\ Len(tagCmds) = 2
    /\ tagCmds[2].ok

\* The position of the first call of fn in ops, 0 when there is none.
FirstCall(fn) ==
    IF Called(fn) THEN CHOOSE i \in 1..Len(ops) :
                           ops[i][1] = fn /\ \A j \in 1..(i - 1) : ops[j][1] # fn
    ELSE 0

\* C22: a qc run calls neither the ticket prompt nor the release
\* notification; the notification is called only after a prompt that gave a
\* ticket, with that ticket, and never after a failed prompt.
C22_TicketBeforeRelease ==
    ZtagRun =>
        /\ env = EnvQC => (~Called("Input") /\ ~Called("CreateZalopayRelease"))
        /\ Called("CreateZalopayRelease") =>
              /\ Called("Input")
              /\ FirstCall("Input") < FirstCall("CreateZalopayRelease")
              /\ jiraTicket # ""
              /\ ops[FirstCall("CreateZalopayRelease")][3] = jiraTicket
        /\ wfErr = "prompt failed" => ~Called("CreateZalopayRelease")
        /\ CallCount("CreateZalopayRelease") <= 1

\* C22 witness: a stg run notified the release with the ticket it was given.
C22_Witness ==
    /\ ZtagRun
    /\ env = EnvStg
    /\ pc = "zt_done"
    /\ wfErr = "nil"
    /\ Called("CreateZalopayRelease")
    /\ jiraTicket = "JIRA-1"

\* C22 witness of the failed prompt.
C22_WitnessPromptFailed ==
    /\ ZtagRun
    /\ env = EnvProd
    /\ pc = "zt_done"
    /\ wfErr = "prompt failed"

\* C22 witness of a qc run that ended successfully.
C22_WitnessQC ==
    /\ ZtagRun
    /\ env = EnvQC
    /\ pc = "zt_done"
    /\ wfErr = "nil"

IsCmdTag(c) == c.cmd[1] = "tag"

IsCmdPush(c) == c.cmd[1] = "push"

\* C23: after a failed git tag no command follows; after a failed push the
\* run has ended with an error, the created tag is still there, no command
\* followed the push, and neither the prompt nor the notification is called.
C23_CreateThenPush ==
    /\ \A i \in 1..Len(tagCmds) :
          (IsCmdTag(tagCmds[i]) /\ ~tagCmds[i].ok) =>
              /\ Len(tagCmds) = i
              /\ pc = "zt_done"
              /\ IsFailure(wfErr)
    /\ \A i \in 1..Len(tagCmds) :
          (IsCmdPush(tagCmds[i]) /\ ~tagCmds[i].ok) =>
              /\ Len(tagCmds) = i
              /\ i = 2
              /\ IsCmdTag(tagCmds[1]) /\ tagCmds[1].ok
              /\ pc = "zt_done"
              /\ IsFailure(wfErr)
              /\ nextTag \in localTags
              /\ ~Called("Input")
              /\ ~Called("CreateZalopayRelease")
    /\ \A i \in 1..Len(tagCmds) : IsCmdTag(tagCmds[i]) \/ IsCmdPush(tagCmds[i])

\* C23 witness: the push failed after the tag was created.
C23_Witness ==
    /\ Len(tagCmds) = 2
    /\ tagCmds[1].ok
    /\ ~tagCmds[2].ok
    /\ env = EnvStg
    /\ pc = "zt_done"

\* C23 witness of the other case: git tag failed.
C23_WitnessCreateFailed ==
    /\ Len(tagCmds) = 1
    /\ ~tagCmds[1].ok
    /\ pc = "zt_done"

Min(a, b) == IF a < b THEN a ELSE b

\* C24: a successful GetLatestTags(limit) returns the first limit tags of
\* origin, the most recent first, and the one tag v0.0.0 when origin has
\* none; a run on a repository without tags releases v0.0.0 bumped at the
\* component of its level, with the label of its environment.
C24_LatestTags ==
    /\ (pc = "glt_done" /\ wfErr = "nil") =>
          LET limit == ops[1][2] IN
              /\ latestTags # <<>>
              /\ Len(latestTags) <= limit
              /\ remoteTags = <<>> => latestTags = <<BaselineTag>>
              /\ remoteTags # <<>> =>
                    latestTags = SubSeq(remoteTags, 1, Min(limit, Len(remoteTags)))
    /\ (ZtagRun /\ pc = "idle" /\ remoteTags = <<>>) => latestTags = <<BaselineTag>>
    /\ (ZtagRun /\ latestTags = <<BaselineTag>> /\ nextTag # <<>>) =>
          nextTag = <<"v">>
              \o VersionText(BumpAt(ZeroComponents, ComponentOf(level)))
              \o <<"-">> \o env

\* C24 witness: GetLatestTags(2) returned two of the four tags of origin.
C24_Witness ==
    /\ pc = "glt_done"
    /\ Len(remoteTags) = 4
    /\ ops[1][2] = 2
    /\ latestTags = SubSeq(remoteTags, 1, 2)

\* C24 witness of the first release: v0.1.0-stg from a repository without
\* tags.
C24_WitnessFirstTag ==
    /\ ZtagRun
    /\ latestTags = <<BaselineTag>>
    /\ level = LevelMinor
    /\ env = EnvStg
    /\ nextTag = <<"v", "0", ".", "1", ".", "0", "-", "s", "t", "g">>
    /\ Len(tagCmds) = 2

\* The output has "CONFLICT" or "Automatic merge failed" in some letter case.
ContainsMarkerAnyCase(out) ==
    \/ ContainsFold(out, MarkerUpper)
    \/ ContainsFold(out, MarkerAuto)

\* C25 as stated: the probe returns true exactly when its merge failed with
\* a marker in any letter case in the output, and an error when the merge
\* failed with no marker in any letter case.
C25_Original ==
    Returned =>
        /\ ret.val <=> (IssuedMerge /\ ~mergeOk /\ ContainsMarkerAnyCase(output))
        /\ (IssuedMerge /\ ~mergeOk /\ ~ContainsMarkerAnyCase(output)) =>
              ret.err = ProbeExecutionError(output)

\* C25 amended: the probe returns true exactly when its merge failed with
\* "CONFLICT", "conflict" or "Automatic merge failed", in exactly these
\* letters, in the output; a failed merge with none of the three, in another
\* letter case or not at all, gives an error.
C25_ExactMarkers ==
    Returned =>
        /\ ret.val <=> (IssuedMerge /\ ~mergeOk /\ ContainsMarker(output))
        /\ (IssuedMerge /\ ~mergeOk /\ ~ContainsMarker(output)) =>
              /\ ret.err = ProbeExecutionError(output)
              /\ ~ret.val

\* C25 witness: a failed merge printing "Conflict" gave an error, not true.
C25_Witness ==
    /\ Returned
    /\ IssuedMerge
    /\ ~mergeOk
    /\ output = OutCapitalised
    /\ ContainsMarkerAnyCase(output)
    /\ ret = [val |-> FALSE, err |-> ProbeExecutionError(OutCapitalised)]

\* The supported templates in the opposite order.
ReversedTemplates == <<2, 1>>

\* C26: no tag is accepted by both templates; the template the engine took is
\* the first of the list that accepts the tag, and it is also the first one
\* of the reversed list, so that a finished call returned what the same call
\* over the reversed list returns.
C26_TemplatesExclusive ==
    /\ ~(MatchString(1, oldTag) /\ MatchString(2, oldTag))
    /\ pc \in {"tag_extract", "tag_next", "tag_generate", "tag_done"}
           => /\ template = FirstMatchIn(supportedTagTemplates, oldTag)
              /\ template = FirstMatchIn(ReversedTemplates, oldTag)
              /\ template # 0 =>
                     \A i \in 1..Len(supportedTagTemplates) :
                         MatchString(supportedTagTemplates[i], oldTag)
                             => supportedTagTemplates[i] = template
    /\ TagDone => /\ tagRes = GenerateNextTag(oldTag, level, env)
                  /\ tagRes = GenerateNextTagOver(ReversedTemplates, oldTag, level, env)

\* A tag of the second form that ends like one of the first form went
\* through the second template and gave a tag.
C26_Witness ==
    /\ TagDone
    /\ oldTag \in EdgeTags
    /\ MatchString(2, oldTag)
    /\ template = 2
    /\ tagRes.kind = "ok"

\* A tag of the first form that starts like one of the second form went
\* through the first template.
C26_WitnessFirstForm ==
    /\ TagDone
    /\ oldTag \in EdgeTags
    /\ MatchString(1, oldTag)
    /\ template = 1
    /\ tagRes.kind = "ok"

\* The largest number of successive bumps looked at.
MaxBumps == 2

\* n successive Patch bumps for environment e, starting from tag.
RECURSIVE PatchBumps(_, _, _)
PatchBumps(tag, e, n) ==
    IF n = 0 THEN [kind |-> "ok", tag |-> tag, err |-> ""]
    ELSE LET r == GenerateNextTag(tag, LevelBug, e) IN
         IF r.kind # "ok" THEN r ELSE PatchBumps(r.tag, e, n - 1)

\* C27: a tag returned for qc, stg or prod is accepted by the template that
\* matched the input and its components are the bumped components; n
\* successive Patch bumps of the input give a tag of the same template
\* whose patch is n higher.
C27_Original ==
    (TagDone /\ tagRes.kind = "ok" /\ env \in Envs)
        => /\ FirstMatch(tagRes.tag) = template
           /\ Extractor(template, tagRes.tag)
                  = [kind |-> "ok",
                     c |-> TagComponentsNext(Extractor(template, oldTag).c, level)]
           /\ \A n \in 1..MaxBumps :
                  LET r == PatchBumps(oldTag, env, n) IN
                  /\ r.kind = "ok"
                  /\ FirstMatch(r.tag) = template
                  /\ Extractor(template, r.tag)
                         = [kind |-> "ok",
                            c |-> [Extractor(template, oldTag).c
                                       EXCEPT !.Patch = @ + n]]

IsCheckout(op) == op[1] = "CheckoutBranch"

\* The checkouts the run has issued.
Checkouts == SelectSeq(ops, IsCheckout)

\* The failures of rmerge after its checkout.
FailuresAfterCheckout ==
    {"error pulling branch", "failed to check merge conflicts",
     "merge conflicts detected", "failed to merge branch"}

\* C28: an rmerge run issues at most one checkout, the one of its target; a
\* run that failed at pull, at the conflict probe or at the merge issued
\* exactly that one, and the repository is on the target branch, which is
\* not the branch the run started on.
C28_StaysOnTarget ==
    /\ Len(Checkouts) <= 1
    /\ \A i \in 1..Len(Checkouts) : Checkouts[i] = <<"CheckoutBranch", targetBranch>>
    /\ wfErr \in FailuresAfterCheckout
           => /\ Len(Checkouts) = 1
              /\ head = targetBranch
              /\ head # currentBranch

\* C28 witness: the probe found a conflict; the run ended on the target.
C28_Witness ==
    /\ pc = "exited"
    /\ wfErr = "merge conflicts detected"
    /\ head = targetBranch
    /\ currentBranch # targetBranch
    /\ Len(Checkouts) = 1

\* C28 witnesses of the other failures after the checkout.
C28_WitnessPull ==
    pc = "exited" /\ wfErr = "error pulling branch" /\ head = targetBranch

C28_WitnessProbeError ==
    pc = "exited" /\ wfErr = "failed to check merge conflicts" /\ head = targetBranch

C28_WitnessMerge ==
    pc = "exited" /\ wfErr = "failed to merge branch" /\ head = targetBranch

\* The text of the version in a tag template t accepts.
VersionTextOf(t, tag) ==
    IF t = 1 THEN SubSeq(tag, FindFirst(tag, "-") + 2, Len(tag))
    ELSE LET rest == Tail(tag)
             j == FindFirst(rest, "-") IN
         IF j = 0 THEN rest ELSE SubSeq(rest, 1, j - 1)

\* The tags of template t with the version text v and any label or suffix.
Relabelled(t, v) ==
    IF t = 1 THEN {p \o <<"-", "v">> \o v : p \in Prefixes}
    ELSE {<<"v">> \o v} \cup {<<"v">> \o v \o <<"-">> \o x : x \in Suffixes}

\* The label of a tag GenerateNextTag returned through template t for an
\* environment whose label has n characters.
LabelOf(t, tag, n) ==
    IF t = 1 THEN SubSeq(tag, 1, n) ELSE SubSeq(tag, Len(tag) - n + 1, Len(tag))

\* C29: the label of a returned tag is the label of the requested
\* environment, set off by "-"; and the call gives the same result for every
\* tag of the same template with the same version, whatever its label or
\* suffix.
C29_LabelIsRequestedEnv ==
    TagDone =>
        /\ tagRes.kind = "ok" =>
               /\ Len(tagRes.tag) > Len(env) + 1
               /\ LabelOf(template, tagRes.tag, Len(env)) = env
               /\ IF template = 1
                  THEN tagRes.tag[Len(env) + 1] = "-"
                  ELSE tagRes.tag[Len(tagRes.tag) - Len(env)] = "-"
        /\ template # 0 =>
               \A other \in Relabelled(template, VersionTextOf(template, oldTag)) :
                   /\ FirstMatch(other) = template
                   /\ GenerateNextTag(other, level, env) = tagRes

\* C29 witness: qc-v1.2.3 bumped for prod gives prod-v1.2.4, as stg-v1.2.3
\* and prod-v1.2.3 do.
C29_Witness ==
    /\ TagDone
    /\ oldTag = <<"q", "c", "-", "v", "1", ".", "2", ".", "3">>
    /\ level = LevelBug
    /\ env = EnvProd
    /\ tagRes.kind = "ok"
    /\ tagRes.tag = <<"p", "r", "o", "d", "-", "v", "1", ".", "2", ".", "4">>
    /\ GenerateNextTag(<<"s", "t", "g", "-", "v", "1", ".", "2", ".", "3">>, level, env) = tagRes
    /\ GenerateNextTag(<<"p", "r", "o", "d", "-", "v", "1", ".", "2", ".", "3">>, level, env) = tagRes

\* C29 witness of the second form: the suffix beta is replaced by stg.
C29_WitnessSuffix ==
    /\ TagDone
    /\ oldTag = <<"v", "1", ".", "2", ".", "3", "-", "b", "e", "t", "a">>
    /\ env = EnvStg
    /\ level = LevelMinor
    /\ tagRes.tag = <<"v", "1", ".", "3", ".", "0", "-", "s", "t", "g">>

\* Version a is below version b in lexicographic order.
LexLess(a, b) ==
    \/ a.Major < b.Major
    \/ a.Major = b.Major /\ a.Minor < b.Minor
    \/ a.Major = b.Major /\ a.Minor = b.Minor /\ a.Patch < b.Patch

\* C30: the version written in a returned tag is above the version of the
\* input tag in lexicographic order.
C30_Original ==
    (TagDone /\ tagRes.kind = "ok") =>
        /\ tagRes.tag = Generator(template, comps, env)
        /\ LexLess(VersionOf(FindStringSubmatch(template, oldTag)), comps)

====
